---- MODULE Spec2Model ----
(***************************************************************************)
(* Reinforcement-learning extension of pymatch: the episode / replay       *)
(* Memory, the value-based action selectors, and the PolicyGradient and    *)
(* QLearner learners (play_episode, fit_epoch, _backward) of               *)
(* pymatch/ReinforcementLearning/policy_gradient.py.                       *)
(*                                                                         *)
(* Tensors are abstracted as follows.  Rewards, Q-values, gamma, alpha and *)
(* epsilon are exact rationals <<num, den>>.  A log-probability or an      *)
(* observation is a token <<episode, step>> naming the step that produced  *)
(* it.  The network is a nondeterministic source of Q-values; its          *)
(* parameters are not modelled, only the state of their gradients.         *)
(***************************************************************************)
EXTENDS Integers, Sequences, FiniteSets, TLC

\* An optional value: None is the empty tuple, a value v present is <<v>>.
None == <<>>
Some(v) == <<v>>
ValueOf(o) == o[1]

(***************************************************************************)
(* Exact rational arithmetic                                               *)
(***************************************************************************)
Abs(n) == IF n < 0 THEN -n ELSE n

RECURSIVE GCD(_, _)
GCD(a, b) == IF b = 0 THEN a ELSE GCD(b, a % b)

Rat(n, d) ==
    LET g == GCD(Abs(n), Abs(d))
        s == IF d < 0 THEN -1 ELSE 1
    IN  <<(s * n) \div g, (s * d) \div g>>

RInt(n) == <<n, 1>>
RAdd(x, y) == Rat(x[1] * y[2] + y[1] * x[2], x[2] * y[2])
RSub(x, y) == Rat(x[1] * y[2] - y[1] * x[2], x[2] * y[2])
RMul(x, y) == Rat(x[1] * y[1], x[2] * y[2])
RLess(x, y) == x[1] * y[2] < y[1] * x[2]

RECURSIVE RPow(_, _)
RPow(x, k) == IF k = 0 THEN RInt(1) ELSE RMul(x, RPow(x, k - 1))

Min(a, b) == IF a < b THEN a ELSE b

(***************************************************************************)
(* Memory (pymatch.ReinforcementLearning.memory): named per-step cells, an *)
(* optional capacity, a fill level and an insertion cursor.                *)
(***************************************************************************)
NewMemory(memory_cell_names, buffer_size, n_samples, batch_size, gamma) ==
    [memory_cell_names |-> memory_cell_names,
     n_samples   |-> n_samples,
     batch_size  |-> batch_size,
     cells       |-> [n \in {memory_cell_names[i] : i \in DOMAIN memory_cell_names} |-> <<>>],
     buffer_size |-> buffer_size,
     gamma       |-> gamma,
     fill        |-> 0,
     cursor      |-> 0]

\* The record a tuple of values denotes under the given field names.
AsRecord(values, field_names) ==
    [n \in {field_names[i] : i \in DOMAIN field_names} |->
        values[CHOOSE i \in DOMAIN field_names : field_names[i] = n]]

\* One record into the buffer: appended while there is room (always, when no
\* capacity is set), otherwise written over the slot under the cursor.
MemorizeOne(m, rec) ==
    IF m.buffer_size = None
    THEN [m EXCEPT !.cells  = [n \in DOMAIN m.cells |-> Append(m.cells[n], rec[n])],
                   !.fill   = m.fill + 1,
                   !.cursor = m.cursor + 1]
    ELSE IF m.fill < ValueOf(m.buffer_size)
    THEN [m EXCEPT !.cells  = [n \in DOMAIN m.cells |-> Append(m.cells[n], rec[n])],
                   !.fill   = m.fill + 1,
                   !.cursor = (m.cursor + 1) % ValueOf(m.buffer_size)]
    ELSE [m EXCEPT !.cells  = [n \in DOMAIN m.cells |->
                                  [m.cells[n] EXCEPT ![m.cursor + 1] = rec[n]]],
                   !.cursor = (m.cursor + 1) % ValueOf(m.buffer_size)]

\* The storage index of the k-th oldest record held (k = 1 is the oldest).
SlotOf(m, k) ==
    IF m.buffer_size = None \/ m.fill < ValueOf(m.buffer_size)
    THEN k
    ELSE ((m.cursor + k - 1) % ValueOf(m.buffer_size)) + 1

\* The records held, oldest first.
Records(m) ==
    [k \in 1..m.fill |-> [n \in DOMAIN m.cells |-> m.cells[n][SlotOf(m, k)]]]

RECURSIVE MemorizeAll(_, _)
MemorizeAll(m, recs) ==
    IF recs = <<>> THEN m
    ELSE MemorizeAll(MemorizeOne(m, Head(recs)), Tail(recs))

\* memorize(values, field_names) with a tuple of values: one record, each value
\* stored under the field name at the same position.
Memorize(m, values, field_names) ==
    MemorizeOne(m, AsRecord(values, field_names))

\* memorize(memory, field_names) with a whole Memory: its records are merged one
\* by one, oldest first, under the given field names.
MemorizeMemory(m, other, field_names) ==
    MemorizeAll(m, [k \in 1..other.fill |->
                      [n \in {field_names[i] : i \in DOMAIN field_names} |->
                          Records(other)[k][n]]])

\* The discounted returns of the records held, from the last step backward:
\* G_t = r_t + gamma * G_{t+1}, G_T = 0.  Returns[k] belongs to the k-th oldest.
RECURSIVE ReturnsFrom(_, _, _)
ReturnsFrom(rs, gamma, t) ==
    IF t > Len(rs) THEN <<>>
    ELSE LET rest == ReturnsFrom(rs, gamma, t + 1)
             next == IF rest = <<>> THEN RInt(0) ELSE Head(rest)
         IN  <<RAdd(rs[t], RMul(gamma, next))>> \o rest

CumulReward(m) ==
    LET rs == [k \in 1..m.fill |-> m.cells["reward"][SlotOf(m, k)]]
        gs == ReturnsFrom(rs, m.gamma, 1)
    IN  [m EXCEPT !.cells["reward"] =
            [i \in 1..m.fill |->
                gs[CHOOSE k \in 1..m.fill : SlotOf(m, k) = i]]]

(***************************************************************************)
(* Bounds and the inputs the learners are constructed with                 *)
(***************************************************************************)
\* play_episode calls made in a behaviour of Spec.
MaxEpisodes == 2
\* play_episode and fit_epoch calls made in a behaviour of FitSpec.
MaxFitEpisodes == 1
MaxEpochs == 2
\* Step by which an environment without max_episode_length signals done.
MaxSteps == 2

Kinds == {"PolicyGradient", "QLearner"}
Gammas == {<<1, 2>>, <<1, 1>>}
MaxEpisodeLengths == {None, Some(1), Some(3)}
MemorySizes == {2}
GradClips == {None, Some(1)}
EnvRewards == {-1, 1}
EnvActions == {0, 1}

NSamples == {2}
BatchSizes == {1}

\* The learners Spec constructs.  QLearner.play_episode does not read gamma
\* and no play_episode reads grad_clip, so one value of each is drawn there.
Configs ==
    {c \in [kind : Kinds, gamma : Gammas, max_episode_length : MaxEpisodeLengths,
            memory_size : MemorySizes, grad_clip : {None},
            n_samples : NSamples, batch_size : BatchSizes] :
        c.kind = "QLearner" => c.gamma = <<1, 2>>}

\* The learners FitSpec constructs.
FitConfigs ==
    [kind : Kinds, gamma : {<<1, 2>>}, max_episode_length : {Some(1), Some(2)},
     memory_size : MemorySizes, grad_clip : GradClips,
     n_samples : NSamples, batch_size : BatchSizes]

VARIABLES
    cfg,             \* constructor arguments and env.max_episode_length
    pc,              \* where the learner is
    return_to,       \* who called play_episode: "idle" (the driver) or "updater"
    train_loader,    \* the learner's persistent Memory
    train_dict,      \* rewards, best_performance (None: key absent), train_losses
    mode,            \* "train" or "eval"
    episode_memory,  \* play_episode's locals
    observation,
    episode_reward,
    step_counter,
    terminate,
    action,
    outcome,         \* of the last play_episode / fit_epoch: "returned", "raised"
    ret,             \* the value the last play_episode returned
    episodes,        \* play_episode calls started so far
    probe,           \* what the environment saw of the current episode
    at_call,         \* persistent state when the current play_episode was called
    window,          \* the records last handed to train_loader.memorize
    epochs,          \* fit_epoch calls started so far
    batches,         \* fit_epoch: the mini-batches still to come, as storage indices
    grad,            \* what has been done to the gradients since they were zeroed
    applied,         \* the gradients the last optimizer.step() used
    pred_mode,       \* the mode of the last forward pass on `state`
    epoch,           \* what happened in the current fit_epoch
    td,              \* TDSpec: one mini-batch of QLearner.fit_epoch
    sel              \* SelectSpec: one selector and its last call

learner_vars == <<train_loader, train_dict, mode>>
episode_vars == <<episode_memory, observation, episode_reward, step_counter,
                  terminate, action>>
ghost_vars == <<probe, at_call, window>>
fit_vars == <<epochs, batches, grad, applied, pred_mode, epoch>>
pure_vars == <<td, sel>>

(***************************************************************************)
(* Construction                                                            *)
(***************************************************************************)
PGCellNames == <<"log_prob", "reward">>
QCellNames == <<"action", "state", "reward", "new_state">>
CellNames(kind) == IF kind = "PolicyGradient" THEN PGCellNames ELSE QCellNames

\* The persistent Memory the constructors build: Memory(names,
\* buffer_size=memory_size, n_samples=..., gamma=gamma, batch_size=...).
TrainLoaderUnbounded(c) ==
    NewMemory(CellNames(c.kind), None, Some(c.n_samples), Some(c.batch_size), c.gamma)
TrainLoader(c) ==
    NewMemory(CellNames(c.kind), Some(c.memory_size), Some(c.n_samples),
              Some(c.batch_size), c.gamma)

\* play_episode's Memory(names, gamma=self.gamma): no buffer_size.
EpisodeMemoryNoGamma(c) == NewMemory(CellNames(c.kind), None, None, None, RInt(1))
EpisodeMemory(c) == NewMemory(CellNames(c.kind), None, None, None, c.gamma)

\* No action chosen yet.
NoAction == [action |-> 0, log_prob |-> <<0, 0>>]

NoProbe == [resets |-> 0, steps |-> 0, first_done |-> 0, raw |-> <<>>,
            memorized |-> 0, merges |-> 0]

NoEpoch == [updater_calls |-> 0, batches_drawn |-> 0, opt_steps |-> 0,
            clips |-> 0, episodes_at_iter |-> 0, at_iter |-> <<>>]

LearnerInit(configs) ==
    /\ cfg \in configs
    /\ pc = "idle"
    /\ return_to = "idle"
    /\ train_loader = TrainLoader(cfg)
    /\ train_dict = [rewards |-> <<>>, best_performance |-> None, train_losses |-> 0]
    /\ mode = "train"
    /\ episode_memory = EpisodeMemory(cfg)
    /\ observation = <<0, 0>>
    /\ episode_reward = 0
    /\ step_counter = 0
    /\ terminate = FALSE
    /\ action = NoAction
    /\ outcome = "none"
    /\ ret = None
    /\ episodes = 0
    /\ probe = NoProbe
    /\ at_call = [train_loader |-> train_loader, train_dict |-> train_dict]
    /\ window = <<>>
    /\ epochs = 0
    /\ batches = <<>>
    /\ grad = <<"stale">>
    /\ applied = <<>>
    /\ pred_mode = "none"
    /\ epoch = [NoEpoch EXCEPT !.at_iter = train_loader]

(***************************************************************************)
(* Action selectors.  qs is the model's output, a tuple of Q-values; the   *)
(* actions are its 0-based indices.                                        *)
(***************************************************************************)
\* qs.argmax().item(): the index of the first maximal value.
ArgMax(qs) ==
    (CHOOSE i \in DOMAIN qs :
        /\ \A j \in DOMAIN qs : ~RLess(qs[i], qs[j])
        /\ \A j \in DOMAIN qs : j < i => RLess(qs[j], qs[i])) - 1

\* EpsilonGreedyActionSelection.__call__: u is the draw of np.random.uniform(),
\* choice the draw of np.random.choice(self.action_space).
EpsilonGreedyFlipped(epsilon, qs, u, choice) ==
    IF RLess(epsilon, u) THEN ArgMax(qs) ELSE choice
EpsilonGreedyActionSelection(epsilon, qs, u, choice) ==
    IF RLess(u, epsilon) THEN ArgMax(qs) ELSE choice

\* GreedyValueSelection.__call__
GreedyValueSelection(qs) == ArgMax(qs)

\* epsilon=.9, the default of EpsilonGreedyActionSelection.
DefaultEpsilon == <<9, 10>>
\* Draws of np.random.uniform(), which lie in [0, 1).
Uniforms == {<<0, 1>>, <<1, 2>>, <<9, 10>>, <<99, 100>>}
QValues == {RInt(-1), RInt(0), <<1, 2>>}
QVectors(n) == [1..n -> QValues]

(***************************************************************************)
(* play_episode                                                            *)
(***************************************************************************)
LastN(s, n) == IF Len(s) <= n THEN s ELSE SubSeq(s, Len(s) - n + 1, Len(s))

\* An exception leaves play_episode and, when the memory updater made the
\* call inside fit_epoch, fit_epoch too: nothing catches it.
Raise ==
    /\ pc' = "idle"
    /\ return_to' = "idle"
    /\ outcome' = IF return_to = "updater" \/ pc \notin {"idle", "select", "step"}
                  THEN "epoch_raised" ELSE "episode_raised"
    /\ ret' = None

\* observation = self.env.reset().detach() and the locals' initial values;
\* QLearner also calls self.eval().
Reset(limit) ==
    /\ pc \in {"idle", "updater"}
    /\ episodes < limit
    /\ episodes' = episodes + 1
    /\ return_to' = pc
    /\ pc' = "select"
    /\ observation' = <<episodes + 1, 0>>
    /\ episode_reward' = 0
    /\ step_counter' = 0
    /\ terminate' = FALSE
    /\ episode_memory' = EpisodeMemory(cfg)
    /\ action' = NoAction
    /\ mode' = IF cfg.kind = "QLearner" THEN "eval" ELSE mode
    /\ outcome' = "none"
    /\ ret' = None
    /\ probe' = [NoProbe EXCEPT !.resets = 1]
    /\ at_call' = [train_loader |-> train_loader, train_dict |-> train_dict]
    /\ UNCHANGED <<cfg, train_loader, train_dict, window, fit_vars, pure_vars>>

\* self.env.reset() raises.
ResetRaises(limit) ==
    /\ pc \in {"idle", "updater"}
    /\ episodes < limit
    /\ episodes' = episodes + 1
    /\ Raise
    /\ probe' = [NoProbe EXCEPT !.resets = 1]
    /\ at_call' = [train_loader |-> train_loader, train_dict |-> train_dict]
    /\ UNCHANGED <<cfg, learner_vars, episode_vars, window, fit_vars, pure_vars>>

\* The locals of a call that has ended.
ClearLocals ==
    /\ episode_memory' = EpisodeMemory(cfg)
    /\ observation' = <<0, 0>>
    /\ episode_reward' = 0
    /\ step_counter' = 0
    /\ terminate' = FALSE
    /\ action' = NoAction

\* step_counter += 1; action[, log_prob] = self.chose_action(self, observation).
\* PolicyGradient's selector samples an action from the model's distribution and
\* returns its log-probability; QLearner's is epsilon-greedy over Q-values.
SelectAction ==
    /\ pc = "select"
    /\ step_counter' = step_counter + 1
    /\ IF cfg.kind = "PolicyGradient"
       THEN \E a \in EnvActions :
               action' = [action |-> a, log_prob |-> <<episodes, step_counter + 1>>]
       ELSE \E a \in {EpsilonGreedyActionSelection(DefaultEpsilon, qs, u, c) :
                          qs \in QVectors(Cardinality(EnvActions)), u \in Uniforms,
                          c \in EnvActions} :
               action' = [action |-> a, log_prob |-> <<0, 0>>]
    /\ pc' = "step"
    /\ UNCHANGED <<cfg, return_to, learner_vars, episode_memory, observation,
                   episode_reward, terminate, outcome, ret, episodes, ghost_vars,
                   fit_vars, pure_vars>>

\* The action selector (the model's forward pass) raises.
SelectRaises ==
    /\ pc = "select"
    /\ Raise
    /\ ClearLocals
    /\ UNCHANGED <<cfg, learner_vars, episodes, ghost_vars, fit_vars, pure_vars>>

\* The values play_episode memorizes for one step, and their field names.
StepValues(kind, act, obs, reward, new_observation) ==
    IF kind = "PolicyGradient"
    THEN <<act.log_prob, RInt(reward)>>
    ELSE <<act.action, obs, RInt(reward), new_observation>>

\* Where the step's record goes: into the episode's Memory only.
LoopMemorizeIntoLoader(em, tl, values, names) ==
    [episode_memory |-> Memorize(em, values, names),
     train_loader |-> Memorize(tl, values, names)]
LoopMemorize(em, tl, values, names) ==
    [episode_memory |-> Memorize(em, values, names), train_loader |-> tl]

\* terminate = done or (max_episode_length is not None
\*                      and step_counter >= max_episode_length)
TerminateLate(done, steps, max_episode_length) ==
    done \/ (max_episode_length # None /\ steps > ValueOf(max_episode_length))
Terminate(done, steps, max_episode_length) ==
    done \/ (max_episode_length # None /\ steps >= ValueOf(max_episode_length))

\* Whether the loop is left after this step: PolicyGradient's `while not
\* terminate`; QLearner's `if done: break` and the same loop condition.
LeavesLoop(kind, done, term) ==
    IF kind = "PolicyGradient" THEN term ELSE done \/ term

\* What follows the loop: PolicyGradient calls episode_memory.cumul_reward()
\* before it merges the episode, QLearner merges it as it is.
AfterLoopNoCumul(kind) == "merge"
AfterLoop(kind) == IF kind = "PolicyGradient" THEN "cumul" ELSE "merge"

\* new_observation, reward, done, _ = self.env.step(action) and the rest of the
\* loop body.  An environment without max_episode_length signals done by
\* MaxSteps.
EnvStep ==
    /\ pc = "step"
    /\ \E reward \in EnvRewards, done \in BOOLEAN :
        LET new_observation == <<observation[1], step_counter>>
            stored == LoopMemorize(episode_memory, train_loader,
                          StepValues(cfg.kind, action, observation, reward,
                                     new_observation),
                          CellNames(cfg.kind))
            term == Terminate(done, step_counter, cfg.max_episode_length)
        IN  /\ (cfg.max_episode_length = None /\ step_counter >= MaxSteps) => done
            /\ episode_reward' = episode_reward + reward
            /\ episode_memory' = stored.episode_memory
            /\ train_loader' = stored.train_loader
            /\ observation' = new_observation
            /\ terminate' = term
            /\ pc' = IF LeavesLoop(cfg.kind, done, term) THEN AfterLoop(cfg.kind)
                     ELSE "select"
            /\ probe' = [probe EXCEPT
                            !.steps = @ + 1,
                            !.first_done = IF @ = 0 /\ done THEN step_counter ELSE @,
                            !.raw = Append(@, reward),
                            !.memorized = @ + 1]
    /\ UNCHANGED <<cfg, return_to, train_dict, mode, step_counter, action,
                   outcome, ret, episodes, at_call, window, fit_vars, pure_vars>>

\* self.env.step(action) raises.
StepRaises ==
    /\ pc = "step"
    /\ Raise
    /\ ClearLocals
    /\ probe' = [probe EXCEPT !.steps = @ + 1]
    /\ UNCHANGED <<cfg, learner_vars, episodes, at_call, window, fit_vars, pure_vars>>

\* episode_memory.cumul_reward()
CumulRewardCall ==
    /\ pc = "cumul"
    /\ episode_memory' = CumulReward(episode_memory)
    /\ pc' = "merge"
    /\ UNCHANGED <<cfg, return_to, learner_vars, observation, episode_reward,
                   step_counter, terminate, action, outcome, ret, episodes,
                   ghost_vars, fit_vars, pure_vars>>

\* train_dict['rewards'] = train_dict.get('rewards', []) + [episode_reward];
\* if episode_reward > train_dict.get('best_performance', -inf): best = reward
RecordRewardLast(dict, reward) ==
    [dict EXCEPT !.rewards = Append(@, reward), !.best_performance = Some(reward)]
RecordReward(dict, reward) ==
    [dict EXCEPT !.rewards = Append(@, reward),
               !.best_performance =
                   IF @ = None \/ reward > ValueOf(@) THEN Some(reward) ELSE @]

\* The end of play_episode: self.train_loader.memorize(episode_memory,
\* episode_memory.memory_cell_names) (QLearner: after self.train()), the
\* bookkeeping in train_dict, and the return.
FinishEpisode ==
    /\ pc = "merge"
    /\ train_loader' = MemorizeMemory(train_loader, episode_memory,
                                      episode_memory.memory_cell_names)
    /\ window' = LastN(window \o Records(episode_memory), cfg.memory_size)
    /\ train_dict' = RecordReward(train_dict, episode_reward)
    /\ mode' = IF cfg.kind = "QLearner" THEN "train" ELSE mode
    /\ pc' = return_to
    /\ return_to' = "idle"
    /\ outcome' = "episode_returned"
    /\ ret' = Some(episode_reward)
    /\ probe' = [probe EXCEPT !.merges = @ + 1]
    /\ ClearLocals
    /\ UNCHANGED <<cfg, episodes, at_call, fit_vars, pure_vars>>

(***************************************************************************)
(* fit_epoch and _backward                                                 *)
(***************************************************************************)
\* fit_epoch is entered; its first statement, self.memory_updater(self), starts.
FitEpochCall ==
    /\ pc = "idle"
    /\ epochs < MaxEpochs
    /\ epochs' = epochs + 1
    /\ pc' = "updater"
    /\ outcome' = "none"
    /\ ret' = None
    /\ epoch' = [NoEpoch EXCEPT !.updater_calls = 1, !.at_iter = train_loader]
    /\ UNCHANGED <<cfg, return_to, learner_vars, episode_vars, episodes, ghost_vars,
                   batches, grad, applied, pred_mode, pure_vars>>

\* The memory updater, which plays episodes (Reset with pc = "updater"),
\* returns; then self.model.train(); self.model.to(device); losses = [].
UpdaterReturn ==
    /\ pc = "updater"
    /\ mode' = "train"
    /\ pc' = "iterate"
    /\ UNCHANGED <<cfg, return_to, train_loader, train_dict, episode_vars, outcome,
                   ret, episodes, ghost_vars, fit_vars, pure_vars>>

\* The tuples of k distinct storage indices among 1..n.
Samples(n, k) ==
    {q \in [1..k -> 1..n] : \A i, j \in 1..k : i # j => q[i] # q[j]}

RECURSIVE Grouped(_, _)
Grouped(q, size) ==
    IF Len(q) = 0 THEN <<>>
    ELSE IF Len(q) <= size THEN <<q>>
    ELSE <<SubSeq(q, 1, size)>> \o Grouped(SubSeq(q, size + 1, Len(q)), size)

\* enumerate(self.train_loader): n_samples indices drawn without replacement
\* from the filled range and grouped into batches of batch_size.  With fewer
\* than n_samples records held, the draw is capped here (see IterateRaises).
Iterate ==
    /\ pc = "iterate"
    /\ \E q \in Samples(train_loader.fill,
                        Min(ValueOf(train_loader.n_samples), train_loader.fill)) :
          batches' = Grouped(q, ValueOf(train_loader.batch_size))
    /\ pc' = "batch"
    /\ epoch' = [epoch EXCEPT !.at_iter = train_loader, !.episodes_at_iter = episodes]
    /\ UNCHANGED <<cfg, return_to, learner_vars, episode_vars, outcome, ret,
                   episodes, ghost_vars, epochs, grad, applied, pred_mode, pure_vars>>

\* With fewer than n_samples records held the draw may instead fail.
IterateRaises ==
    /\ pc = "iterate"
    /\ train_loader.fill < ValueOf(train_loader.n_samples)
    /\ Raise
    /\ UNCHANGED <<cfg, learner_vars, episode_vars, episodes, ghost_vars, fit_vars,
                   pure_vars>>

\* The loop body up to self._backward(loss).  PolicyGradient: the loss of the
\* batch.  QLearner: the forward pass on `state`, self.model.eval() and the
\* forward pass on `new_state`, the TD target (TDSpec), the loss, and
\* train_dict['train_losses'] += [loss.item()].
NextBatch ==
    /\ pc = "batch"
    /\ batches # <<>>
    /\ batches' = Tail(batches)
    /\ epoch' = [epoch EXCEPT !.batches_drawn = @ + 1]
    /\ IF cfg.kind = "QLearner"
       THEN /\ pred_mode' = mode
            /\ mode' = "eval"
            /\ train_dict' = [train_dict EXCEPT !.train_losses = @ + 1]
       ELSE UNCHANGED <<pred_mode, mode, train_dict>>
    /\ pc' = "zero_grad"
    /\ UNCHANGED <<cfg, return_to, train_loader, episode_vars, outcome, ret,
                   episodes, ghost_vars, epochs, grad, applied, pure_vars>>

\* What follows each statement of _backward.
AfterZeroGrad == "backward"
AfterBackwardClipNever(grad_clip) == "opt_step"
AfterBackward(grad_clip) == IF grad_clip # None THEN "clip" ELSE "opt_step"
AfterClip == "opt_step"
\* What follows self._backward(loss): the next batch of the same iteration.
AfterStepRefill == "updater"
AfterStep == "batch"

\* self.optimizer.zero_grad()
ZeroGrad ==
    /\ pc = "zero_grad"
    /\ grad' = <<>>
    /\ pc' = AfterZeroGrad
    /\ UNCHANGED <<cfg, return_to, learner_vars, episode_vars, outcome, ret,
                   episodes, ghost_vars, epochs, batches, applied, pred_mode, epoch,
                   pure_vars>>

\* loss.clone().backward(retain_graph=True)
Backward ==
    /\ pc = "backward"
    /\ grad' = Append(grad, "backward")
    /\ pc' = AfterBackward(cfg.grad_clip)
    /\ UNCHANGED <<cfg, return_to, learner_vars, episode_vars, outcome, ret,
                   episodes, ghost_vars, epochs, batches, applied, pred_mode, epoch,
                   pure_vars>>

\* torch.nn.utils.clip_grad_norm_(self.model.parameters(), self.grad_clip)
Clip ==
    /\ pc = "clip"
    /\ grad' = Append(grad, "clip")
    /\ pc' = AfterClip
    /\ epoch' = [epoch EXCEPT !.clips = @ + 1]
    /\ UNCHANGED <<cfg, return_to, learner_vars, episode_vars, outcome, ret,
                   episodes, ghost_vars, epochs, batches, applied, pred_mode,
                   pure_vars>>

\* self.optimizer.step(), and back in the loop (PolicyGradient:
\* losses += [loss.item()]).
OptStep ==
    /\ pc = "opt_step"
    /\ applied' = grad
    /\ pc' = AfterStep
    /\ epoch' = [epoch EXCEPT !.opt_steps = @ + 1]
    /\ UNCHANGED <<cfg, return_to, learner_vars, episode_vars, outcome, ret,
                   episodes, ghost_vars, epochs, batches, grad, pred_mode, pure_vars>>

\* After the last batch.  PolicyGradient appends the mean loss to
\* train_dict['train_losses'] and returns it.  QLearner returns the last
\* batch's loss, a name that is unbound when there was no batch.  The
\* progress line printed under verbose = 1 changes no state and is left out.
EpochEnd ==
    /\ pc = "batch"
    /\ batches = <<>>
    /\ pc' = "idle"
    /\ ret' = None
    /\ IF cfg.kind = "PolicyGradient"
       THEN /\ train_dict' = [train_dict EXCEPT !.train_losses = @ + 1]
            /\ outcome' = "epoch_returned"
       ELSE /\ train_dict' = train_dict
            /\ outcome' = IF epoch.batches_drawn = 0 THEN "epoch_raised"
                          ELSE "epoch_returned"
    /\ UNCHANGED <<cfg, return_to, train_loader, mode, episode_vars, episodes,
                   ghost_vars, fit_vars, pure_vars>>

(***************************************************************************)
(* One mini-batch of QLearner.fit_epoch: the TD target                     *)
(***************************************************************************)
TDBatchSizes == {1, 2}
TDValues == {RInt(0), RInt(1)}
Alphas == {<<1, 2>>, <<1, 1>>}

\* self.model(new_state).max(dim=1)[0]: the largest value of one row.
RowMax(row) == CHOOSE v \in {row[i] : i \in DOMAIN row} :
                   \A i \in DOMAIN row : ~RLess(v, row[i])

\* target = prediction.clone().detach(): a tensor of its own.
CloneAliased(prediction) == [target |-> prediction, aliased |-> TRUE]
Clone(prediction) == [target |-> prediction, aliased |-> FALSE]

\* t[a.item()] += self.alpha * (r + self.gamma * m - t[a.item()])
RowUpdateAll(t, a, r, m, alpha, gamma) ==
    [j \in DOMAIN t |-> RAdd(t[j], RMul(alpha, RSub(RAdd(r, RMul(gamma, m)), t[j])))]
RowUpdate(t, a, r, m, alpha, gamma) ==
    [t EXCEPT ![a + 1] = RAdd(@, RMul(alpha, RSub(RAdd(r, RMul(gamma, m)), @)))]

TDInit ==
    \E n \in TDBatchSizes :
    \E p \in [1..n -> [1..Cardinality(EnvActions) -> TDValues]],
       nq \in [1..n -> [1..Cardinality(EnvActions) -> TDValues]],
       a \in [1..n -> EnvActions], r \in [1..n -> EnvRewards],
       al \in Alphas, g \in Gammas :
        td = [alpha |-> al, gamma |-> g, action |-> a,
              reward |-> [i \in 1..n |-> RInt(r[i])],
              prediction |-> p, forwarded |-> p, next_q |-> nq,
              max_next |-> <<>>, target |-> <<>>, aliased |-> FALSE,
              row |-> 0, at |-> "forward"]

\* prediction = self.model(state); with torch.no_grad(): max_next = ...;
\* target = prediction.clone().detach()
TDForward ==
    /\ td.at = "forward"
    /\ LET c == Clone(td.prediction)
       IN  td' = [td EXCEPT !.max_next = [i \in DOMAIN td.next_q |-> RowMax(td.next_q[i])],
                            !.target = c.target,
                            !.aliased = c.aliased,
                            !.at = "rows"]
    /\ UNCHANGED <<cfg, pc, return_to, learner_vars, episode_vars, outcome, ret,
                   episodes, ghost_vars, fit_vars, sel>>

\* One turn of `for t, a, r, m in zip(target, action, reward, max_next)`.
TDRow ==
    /\ td.at = "rows"
    /\ td.row < Len(td.target)
    /\ LET i == td.row + 1
           t == RowUpdate(td.target[i], td.action[i], td.reward[i], td.max_next[i],
                          td.alpha, td.gamma)
           new_target == [td.target EXCEPT ![i] = t]
       IN  td' = [td EXCEPT !.target = new_target,
                            !.prediction = IF td.aliased THEN new_target ELSE @,
                            !.row = i]
    /\ UNCHANGED <<cfg, pc, return_to, learner_vars, episode_vars, outcome, ret,
                   episodes, ghost_vars, fit_vars, sel>>

\* loss = self.crit(prediction, target)
TDLoss ==
    /\ td.at = "rows"
    /\ td.row = Len(td.target)
    /\ td' = [td EXCEPT !.at = "loss"]
    /\ UNCHANGED <<cfg, pc, return_to, learner_vars, episode_vars, outcome, ret,
                   episodes, ghost_vars, fit_vars, sel>>

NoTD == [at |-> "none"]

(***************************************************************************)
(* The value-based selectors on their own                                  *)
(***************************************************************************)
Epsilons == {RInt(0), DefaultEpsilon, RInt(1)}
\* The declared action space, and the number of Q-values the model puts out.
ActionSpace == {0, 1}
SelectOutputs == {3}
MaxCalls == 2

SelectInit ==
    \E e \in Epsilons :
        sel = [epsilon |-> e, action_space |-> ActionSpace, calls |-> 0,
               qs |-> <<>>, u |-> RInt(0), choice |-> 0, out |-> 0, greedy |-> 0]

\* One call of the epsilon-greedy selector and one of the greedy selector on
\* the same model output.
SelectCall ==
    /\ sel.calls < MaxCalls
    /\ \E n \in SelectOutputs :
       \E qs \in QVectors(n), u \in Uniforms, c \in sel.action_space :
          sel' = [sel EXCEPT !.calls = @ + 1, !.qs = qs, !.u = u, !.choice = c,
                             !.out = EpsilonGreedyActionSelection(sel.epsilon, qs, u, c),
                             !.greedy = GreedyValueSelection(qs)]
    /\ UNCHANGED <<cfg, pc, return_to, learner_vars, episode_vars, outcome, ret,
                   episodes, ghost_vars, fit_vars, td>>

NoSel == [calls |-> 0]

(***************************************************************************)
(* Specifications                                                          *)
(***************************************************************************)
vars == <<cfg, pc, return_to, train_loader, train_dict, mode, episode_memory,
          observation, episode_reward, step_counter, terminate, action, outcome,
          ret, episodes, probe, at_call, window, epochs, batches, grad, applied,
          pred_mode, epoch, td, sel>>

\* A driver that plays episodes.
Init == LearnerInit(Configs) /\ td = NoTD /\ sel = NoSel

Next ==
    \/ Reset(MaxEpisodes)
    \/ ResetRaises(MaxEpisodes)
    \/ SelectAction
    \/ SelectRaises
    \/ EnvStep
    \/ StepRaises
    \/ CumulRewardCall
    \/ FinishEpisode

Spec == Init /\ [][Next]_vars

\* A driver that plays episodes and fits epochs.
FitInit == LearnerInit(FitConfigs) /\ td = NoTD /\ sel = NoSel

FitNext ==
    \/ Reset(MaxFitEpisodes)
    \/ ResetRaises(MaxFitEpisodes)
    \/ SelectAction
    \/ SelectRaises
    \/ EnvStep
    \/ StepRaises
    \/ CumulRewardCall
    \/ FinishEpisode
    \/ FitEpochCall
    \/ UpdaterReturn
    \/ Iterate
    \/ IterateRaises
    \/ NextBatch
    \/ ZeroGrad
    \/ Backward
    \/ Clip
    \/ OptStep
    \/ EpochEnd

FitSpec == FitInit /\ [][FitNext]_vars

\* The TD target of one mini-batch, for every small batch.
IdleLearner ==
    LearnerInit({[kind |-> "QLearner", gamma |-> <<1, 2>>,
                  max_episode_length |-> Some(1), memory_size |-> 2,
                  grad_clip |-> None, n_samples |-> 2, batch_size |-> 1]})

TDSpecInit == IdleLearner /\ TDInit /\ sel = NoSel
TDNext == TDForward \/ TDRow \/ TDLoss
TDSpec == TDSpecInit /\ [][TDNext]_vars

\* The selectors, for every small model output.
SelectSpecInit == IdleLearner /\ td = NoTD /\ SelectInit
SelectNext == SelectCall
SelectSpec == SelectSpecInit /\ [][SelectNext]_vars

(***************************************************************************)
(* Properties                                                              *)
(***************************************************************************)
\* sum over k of gamma^k * r_{t+k}, for the steps t .. Len(raw) of one episode.
RECURSIVE DiscountedSum(_, _, _, _)
DiscountedSum(raw, gamma, t, k) ==
    IF t + k > Len(raw) THEN RInt(0)
    ELSE RAdd(RMul(RPow(gamma, k), RInt(raw[t + k])),
              DiscountedSum(raw, gamma, t, k + 1))

RECURSIVE Sum(_)
Sum(q) == IF q = <<>> THEN 0 ELSE Head(q) + Sum(Tail(q))

EpisodePcs == {"select", "step", "cumul", "merge"}

\* C1: once PolicyGradient.play_episode has called cumul_reward, the reward of
\* the t-th record of the episode Memory is the discounted return
\* sum_k gamma^k * r_{t+k} of the rewards the environment gave (rewards
\* [1,1,1] with gamma 1/2 become [7/4, 3/2, 1]), the log_prob of every record
\* is the one memorized for its step, and there is one record per step.
C1_CumulReward ==
    (pc = "merge" /\ cfg.kind = "PolicyGradient") =>
        /\ episode_memory.fill = Len(probe.raw)
        /\ \A n \in DOMAIN episode_memory.cells :
               Len(episode_memory.cells[n]) = Len(probe.raw)
        /\ \A t \in 1..Len(probe.raw) :
               /\ episode_memory.cells["reward"][t]
                      = DiscountedSum(probe.raw, cfg.gamma, t, 0)
               /\ episode_memory.cells["log_prob"][t] = <<episodes, t>>
        /\ (probe.raw = <<1, 1, 1>> /\ cfg.gamma = <<1, 2>>) =>
               episode_memory.cells["reward"] = <<(<<7, 4>>), (<<3, 2>>), (<<1, 1>>)>>

C1_Witness ==
    /\ pc = "merge"
    /\ cfg.kind = "PolicyGradient"
    /\ cfg.gamma = <<1, 2>>
    /\ probe.raw = <<1, 1, 1>>
    /\ episode_memory.cells["reward"] = <<(<<7, 4>>), (<<3, 2>>), (<<1, 1>>)>>

\* C2: the persistent Memory never holds more than memory_size records, and
\* the records it holds, read oldest first, are exactly the memory_size most
\* recent records handed to memorize, each with all its fields.
C2_RingBuffer ==
    /\ train_loader.fill <= cfg.memory_size
    /\ \A n \in DOMAIN train_loader.cells :
           Len(train_loader.cells[n]) = train_loader.fill
    /\ Records(train_loader) = window

C2_Witness ==
    /\ cfg.kind = "PolicyGradient"
    /\ Len(train_dict.rewards) = 2
    /\ train_loader.fill = cfg.memory_size
    /\ Records(train_loader)[1].log_prob = <<1, 3>>
    /\ Records(train_loader)[2].log_prob = <<2, 1>>

\* C3: while QLearner.fit_epoch builds the TD target of a mini-batch, every
\* row already visited equals the prediction except at the taken action a,
\* where it is prediction[a] + alpha * (r + gamma * max_next - prediction[a]),
\* max_next being the largest Q-value of the next state; every row not yet
\* visited equals the prediction; and the prediction is what the forward pass
\* returned.
C3_TDTarget ==
    td.at \in {"rows", "loss"} =>
        /\ td.prediction = td.forwarded
        /\ \A i \in DOMAIN td.target :
            LET p == td.forwarded[i]
                a == td.action[i] + 1
                m == td.max_next[i]
            IN  /\ \E j \in DOMAIN td.next_q[i] : m = td.next_q[i][j]
                /\ \A j \in DOMAIN td.next_q[i] : ~RLess(m, td.next_q[i][j])
                /\ i > td.row => td.target[i] = p
                /\ i <= td.row =>
                    /\ \A j \in DOMAIN p : j # a => td.target[i][j] = p[j]
                    /\ td.target[i][a]
                           = RAdd(RMul(RSub(RInt(1), td.alpha), p[a]),
                                  RMul(td.alpha,
                                       RAdd(td.reward[i], RMul(td.gamma, m))))

C3_Witness ==
    /\ td.at = "loss"
    /\ Len(td.target) = 2
    /\ td.target[1] # td.prediction[1]
    /\ td.target[2] # td.prediction[2]
    /\ td.action[1] # td.action[2]

\* C4: with epsilon = 1 every call of the epsilon-greedy selector returns the
\* index of the first largest Q-value, the action the greedy selector returns;
\* with epsilon = 0 every call returns the member of the declared action space
\* that np.random.choice drew, whatever the Q-values are.
C4_EpsilonGreedy ==
    sel.calls > 0 =>
        /\ sel.epsilon = RInt(1) =>
            /\ sel.out = sel.greedy
            /\ \A j \in DOMAIN sel.qs : ~RLess(sel.qs[sel.out + 1], sel.qs[j])
            /\ \A j \in DOMAIN sel.qs :
                   j < sel.out + 1 => RLess(sel.qs[j], sel.qs[sel.out + 1])
        /\ sel.epsilon = RInt(0) =>
            /\ sel.out = sel.choice
            /\ sel.out \in sel.action_space

C4_Witness ==
    /\ sel.calls = 2
    /\ sel.epsilon = RInt(0)
    /\ sel.out = 1
    /\ sel.greedy = 2

\* The env.step calls of an episode whose environment first signalled done at
\* step first_done (0: it never did) under max_episode_length.
ExpectedSteps(first_done, max_episode_length) ==
    IF max_episode_length = None THEN first_done
    ELSE IF first_done = 0 THEN ValueOf(max_episode_length)
    ELSE Min(first_done, ValueOf(max_episode_length))

\* C5: play_episode resets the environment once; it memorizes one record per
\* env.step call; with max_episode_length = N it never makes more than N
\* calls; and when it returns it has made min(d, N) calls, d being the step at
\* which the environment first signalled done, and returns the sum of the
\* rewards of those steps.
C5_EpisodeLoop ==
    /\ pc \in EpisodePcs =>
        /\ probe.resets = 1
        /\ probe.memorized = probe.steps
        /\ episode_memory.fill = probe.steps
        /\ cfg.max_episode_length # None =>
            /\ probe.steps <= ValueOf(cfg.max_episode_length)
            /\ pc \in {"select", "step"} =>
                   probe.steps < ValueOf(cfg.max_episode_length)
        /\ pc \in {"select", "step"} => probe.first_done = 0
    /\ outcome = "episode_returned" =>
        /\ probe.resets = 1
        /\ probe.steps = ExpectedSteps(probe.first_done, cfg.max_episode_length)
        /\ probe.steps >= 1
        /\ probe.memorized = probe.steps
        /\ Len(probe.raw) = probe.steps
        /\ ret = Some(Sum(probe.raw))

C5_Witness ==
    /\ outcome = "episode_returned"
    /\ cfg.max_episode_length = Some(3)
    /\ probe.first_done = 2
    /\ probe.steps = 2
    /\ ret = Some(0)

\* The rewards of the records a completed episode must have merged.
MergedRewards(kind, raw, gamma) ==
    [t \in 1..Len(raw) |->
        IF kind = "PolicyGradient" THEN DiscountedSum(raw, gamma, t, 0)
        ELSE RInt(raw[t])]

RewardsOf(m) == [k \in 1..m.fill |-> Records(m)[k].reward]

\* C6: nothing is merged into the persistent Memory while an episode runs,
\* and when play_episode returns it has merged the episode once: the rewards
\* held are the ones held before the call followed by the episode's (for
\* PolicyGradient the discounted returns of that episode alone, for QLearner
\* the rewards as the environment gave them), cut to the capacity.
C6_MergeAtEnd ==
    /\ pc \in EpisodePcs =>
        /\ probe.merges = 0
        /\ train_loader = at_call.train_loader
    /\ outcome = "episode_returned" =>
        /\ probe.merges = 1
        /\ RewardsOf(train_loader)
               = LastN(RewardsOf(at_call.train_loader)
                           \o MergedRewards(cfg.kind, probe.raw, cfg.gamma),
                       cfg.memory_size)

C6_Witness ==
    /\ outcome = "episode_returned"
    /\ cfg.kind = "PolicyGradient"
    /\ cfg.gamma = <<1, 2>>
    /\ at_call.train_loader.fill = 1
    /\ probe.raw = <<1, -1>>
    /\ RewardsOf(train_loader) = <<(<<1, 2>>), (<<-1, 1>>)>>

SetMax(S) == CHOOSE x \in S : \A y \in S : y <= x
Range(q) == {q[i] : i \in DOMAIN q}

\* C7: best_performance is absent while no episode has completed and is
\* otherwise the largest entry of train_dict['rewards']; a step that completes
\* an episode appends the returned reward to train_dict['rewards'] and no
\* other step changes the list; best_performance never decreases.
C7_StateInv ==
    IF train_dict.rewards = <<>> THEN train_dict.best_performance = None
    ELSE train_dict.best_performance = Some(SetMax(Range(train_dict.rewards)))

C7_Step ==
    /\ IF outcome' = "episode_returned" /\ pc = "merge"
       THEN train_dict'.rewards = Append(train_dict.rewards, ValueOf(ret'))
       ELSE train_dict'.rewards = train_dict.rewards
    /\ train_dict.best_performance # None =>
        /\ train_dict'.best_performance # None
        /\ ValueOf(train_dict'.best_performance) >= ValueOf(train_dict.best_performance)

\* C7, as one formula: the state invariant always holds and every step obeys
\* the step rule.
C7_BestPerformance == [](C7_StateInv) /\ [][C7_Step]_vars

C7_Witness ==
    /\ Len(train_dict.rewards) = 2
    /\ train_dict.rewards[1] = 1
    /\ train_dict.rewards[2] = -2
    /\ train_dict.best_performance = Some(1)

FitBatchPcs == {"batch", "zero_grad", "backward", "clip", "opt_step"}
InUpdater == pc = "updater" \/ (pc \in EpisodePcs /\ return_to = "updater")

\* C8: in a fit_epoch call the memory updater is invoked once; while it runs
\* (and plays episodes) no mini-batch has been drawn and no optimizer step
\* taken; and from the draw of the mini-batches to the return no episode is
\* played and the persistent Memory does not change.
C8_EpochPhases ==
    /\ (InUpdater \/ pc = "iterate" \/ pc \in FitBatchPcs
            \/ outcome = "epoch_returned") => epoch.updater_calls = 1
    /\ (InUpdater \/ pc = "iterate") =>
        /\ epoch.batches_drawn = 0
        /\ epoch.opt_steps = 0
    /\ (pc \in FitBatchPcs \/ outcome = "epoch_returned") =>
        /\ train_loader = epoch.at_iter
        /\ episodes = epoch.episodes_at_iter
        /\ pc \notin EpisodePcs

C8_Witness ==
    /\ outcome = "epoch_returned"
    /\ epoch.batches_drawn = 2
    /\ epoch.episodes_at_iter = 1
    /\ epochs = 1

\* C9: every optimizer step uses gradients that were zeroed, then computed by
\* one backward pass, then clipped if and only if grad_clip is set; there is
\* one optimizer step per mini-batch and, with grad_clip set, one clipping.
C9_BackwardOrder ==
    /\ applied # <<>> =>
           applied = IF cfg.grad_clip = None THEN <<"backward">>
                     ELSE <<"backward", "clip">>
    /\ (pc = "batch" \/ outcome = "epoch_returned") =>
        /\ epoch.opt_steps = epoch.batches_drawn
        /\ epoch.clips = IF cfg.grad_clip = None THEN 0 ELSE epoch.batches_drawn
    /\ pc \in {"zero_grad", "backward", "clip", "opt_step"} =>
        /\ epoch.opt_steps = epoch.batches_drawn - 1
        /\ epoch.clips
               = IF cfg.grad_clip = None THEN 0
                 ELSE IF pc = "opt_step" THEN epoch.batches_drawn
                 ELSE epoch.batches_drawn - 1

C9_Witness ==
    /\ pc = "batch"
    /\ batches = <<>>
    /\ cfg.grad_clip # None
    /\ epoch.opt_steps = 2
    /\ epoch.clips = 2
    /\ applied = <<"backward", "clip">>

C11_TrainModeAtPrediction ==
    (cfg.kind = "QLearner" /\ pred_mode # "none") => pred_mode = "train"

====
